---- MODULE Spec2Model ----
(***************************************************************************)
(* Model of the citation-needed repository.                                *)
(*                                                                         *)
(* Part 1 (specifications Spec and FairSpec): the asynchronous task engine *)
(* of src/async_processor.py.  Every AsyncTask object, its run thread      *)
(* (create_task.run_task) and its inner worker (_run_with_timeout.worker)  *)
(* are modelled statement by statement where the statements write fields   *)
(* of the task, because get_task and the callback lookup read the shared   *)
(* state without taking the lock.                                          *)
(*                                                                         *)
(* Part 2 (specification SpecBatch): FactChecker.fact_check_citations of   *)
(* src/models/fact_checker.py.                                             *)
(*                                                                         *)
(* Part 3 (SpecMsg): process_message of src/app.py and                     *)
(* src/backend_server.py.  Part 4 (SpecSingle):                            *)
(* FactChecker._fact_check_single_citation.  Part 5 (SpecParse):           *)
(* CitationParser.parse_citation of src/models/citation_parser.py.         *)
(* Part 6 (SpecNer): AcademicNER.extract_citations of                      *)
(* src/models/ner_extractor.py.  Part 7 (SpecSearch): the citation search  *)
(* of src/search/firecrawl_client.py and src/search/searxng_client.py.     *)
(* Part 8 (SpecRecreate): create_task called twice with one id.            *)
(* Part 9 (SpecScore): AcademicNER._calculate_confidence.                  *)
(***************************************************************************)
EXTENDS Integers, Sequences, FiniteSets, TLC

(* ---------------------------------------------------------------------- *)
(* Bounds of the model                                                     *)
(* ---------------------------------------------------------------------- *)
MaxTasks == 1

MaxTime == 1

MaxCitations == 2

MaxSources == 2

MaxMatches == 3

MaxPos == 3

MaxWeb == 5

MaxUrl == 6

(* ---------------------------------------------------------------------- *)
(* Values                                                                  *)
(* ---------------------------------------------------------------------- *)
NoneVal == "None"

(* None in a numeric field (timestamps, the timeout argument) *)
NoneNum == -1

(* a value of time.time() stored in started_at or completed_at: only       *)
(* created_at is ever compared, so the other two keep set/unset            *)
Stamp == 0

TaskIds == {"t1", "t2"}

Objs == 1..MaxTasks

Times == 0..MaxTime

PENDING == "pending"

PROCESSING == "processing"

COMPLETED == "completed"

ERROR == "error"

TerminalStatuses == {COMPLETED, ERROR}

(* progress is kept in hundredths: 0.0 -> 0, 0.5 -> 50, 1.0 -> 100 *)
ProgressDefault == 0

ProgressDone == 100

default_timeout == 30

(* the timeout argument of create_task: None, replaced by default_timeout *)
TimeoutArgs == {NoneNum}

(* what the callable passed to create_task does when the worker runs it:   *)
(* return a value, raise an Exception, raise a TimeoutError of its own, or *)
(* call async_processor.update_progress (an attribute AsyncProcessor does  *)
(* not define).  A callable that never returns is a worker that never      *)
(* takes its step.                                                         *)
ReturnValues == {"R"}

QueuesEmpty == [kind |-> "empty", val |-> NoneVal, type |-> NoneVal]

Returned(v) == [kind |-> "ret", val |-> v, type |-> NoneVal]

Raised(ty, m) == [kind |-> "exc", val |-> m, type |-> ty]

ExcBoom == Raised("Exception", "boom")

ExcInnerTimeout == Raised("TimeoutError", "inner timeout")

ExcNoUpdateProgress ==
    Raised("AttributeError",
           "'AsyncProcessor' object has no attribute 'update_progress'")

(* f"Timeout after {timeout} seconds" *)
TimeoutMsg(t) ==
    IF t = default_timeout THEN "Timeout after 30.0 seconds"
    ELSE "Timeout after t seconds"

TimeoutMsgs == {TimeoutMsg(default_timeout)}

(* str(e) *)
Str(e) == e.val

(* AsyncTask(id=task_id): the dataclass defaults *)
AsyncTask(id, t) ==
    [id |-> id, status |-> PENDING, result |-> NoneVal, error |-> NoneVal,
     created_at |-> t, started_at |-> NoneNum, completed_at |-> NoneNum,
     progress |-> ProgressDefault]

(* placeholder of an object that no create_task call has constructed yet *)
NoTask ==
    [id |-> NoneVal, status |-> "none", result |-> NoneVal, error |-> NoneVal,
     created_at |-> NoneNum, started_at |-> NoneNum, completed_at |-> NoneNum,
     progress |-> ProgressDefault]

VARIABLES
    ids,          \* the task ids the callers use in this run
    now,          \* time.time()
    nobjs,        \* number of AsyncTask objects constructed so far
    task,         \* the AsyncTask objects, by construction order
    tasks,        \* self.tasks: task id -> object (0: no entry)
    callbacks,    \* self.callbacks: task id -> a callback is registered
    lock,         \* self._lock: 0 free, o held by the run thread of object o
    pc,           \* position of the run thread of each object
    timeout,      \* the run thread's timeout (closure variable of run_task)
    wpc,          \* position of the inner worker thread of each object
    wout,         \* result_queue / exception_queue of each worker
    res,          \* run_task's local: result
    exc,          \* run_task's local: the caught exception's message
    timedOut,     \* history: join(timeout) expired while the callable ran
    cbAtCreate,   \* history: a callback was registered when create_task ran
    cbCount,      \* history: number of callback invocations per object
    cbArgs        \* history: arguments of the last callback invocation

engineVars ==
    <<ids, now, nobjs, task, tasks, callbacks, lock, pc, timeout, wpc, wout,
      res, exc, timedOut, cbAtCreate, cbCount, cbArgs>>

(* fact_check_citations (Part 2) *)
VARIABLES
    citations,    \* len(citations): the citations are numbered 1..citations
    has_callback, \* a progress_callback was passed
    bpc,          \* position in fact_check_citations
    i,            \* the loop index, counted from 1
    results,      \* the list results
    e_msg,        \* str(e) of the exception caught by the loop body
    failed,       \* history: citations whose pipeline raised
    calls         \* history: the calls of progress_callback

batchVars ==
    <<citations, has_callback, bpc, i, results, e_msg, failed, calls>>

(* a caller of get_task (specification SpecPoll) *)
VARIABLES
    got,          \* what its last get_task call returned: an object, 0 for
                  \* None, NoneNum before the first call
    seen          \* the fields the returned object had when it was returned

pollVars == <<got, seen>>

(* process_message of src/app.py and src/backend_server.py (Part 3) *)
VARIABLES
    variant,        \* "app": CitationFactChecker, "backend": CitationAPI
    chat_model,     \* self.chat_model is set
    ner_extractor,  \* self.ner_extractor is set
    fact_checker,   \* self.fact_checker is set
    mpc,            \* position in process_message
    response,       \* the local response
    msg_citations,  \* len(citations) of the local citations
    task_id,        \* the local task_id
    pending_tasks,  \* self.pending_tasks: the ids it has an entry for
    returned,       \* the task id returned to the caller
    sync_ran        \* fact_check_citations ran on the request thread

msgVars ==
    <<variant, chat_model, ner_extractor, fact_checker, mpc, response,
      msg_citations, task_id, pending_tasks, returned, sync_ran>>

(* FactChecker._fact_check_single_citation (Part 4) *)
VARIABLES
    citation_parser,      \* self.citation_parser is set
    search_client,        \* self.search_client is set
    spc,                  \* position in _fact_check_single_citation
    structured_citation,  \* the local structured_citation is not None
    sources_found,        \* the local sources_found: their confidences
    verification_result,  \* the local verification_result
    single_result,        \* the FactCheckResult returned
    failures,             \* history: the steps of the pipeline that failed
    structured_verdict,   \* history: what _verify_with_structured_data gave
    llm_verdict           \* history: what _verify_citation gave

singleVars ==
    <<citation_parser, search_client, spc, structured_citation, sources_found,
      verification_result, single_result, failures, structured_verdict,
      llm_verdict>>

(* CitationParser.parse_citation (Part 5) *)
VARIABLES
    use_llm,        \* the argument use_llm
    citation_text,  \* what the regex patterns find in the argument
                    \* citation_text: a title, a first author, a year, an
                    \* identifier (DOI or arXiv)
    ppc,            \* position in parse_citation
    parsed_data,    \* the local parsed_data of _parse_with_llm
    parsed,         \* the StructuredCitation returned
    llm_failure     \* history: what failed in _parse_with_llm

parseVars == <<use_llm, citation_text, ppc, parsed_data, parsed, llm_failure>>

(* AcademicNER.extract_citations (Part 6) *)
VARIABLES
    matches,    \* the local citations: one Citation per pattern match
    npc,        \* position in extract_citations
    filtered,   \* what _remove_overlaps returned
    extracted   \* the list extract_citations returns

nerVars == <<matches, npc, filtered, extracted>>

(* smart_citation_search / enhanced_citation_search of the search clients  *)
(* (Part 7)                                                                *)
VARIABLES
    client,          \* which search client: "firecrawl" or "searxng"
    direct_results,  \* what _try_direct_url_validation returned
    all_results,     \* the records in the order they were discovered
    issued,          \* search queries executed so far
    web_ran,         \* whether the web-search phase was entered
    qpc,             \* position in the search
    evidence         \* the list the search returns

searchVars ==
    <<client, direct_results, all_results, issued, web_ran, qpc, evidence>>

(* AcademicNER._calculate_confidence for one pattern match (Part 9) *)
VARIABLES
    pattern_index,     \* the index of the pattern that matched
    keyword_hits,      \* academic keywords found in the context window
    has_year,          \* the citation text has four digits in a row
    has_name,          \* the citation text has a capitalised word
    is_long,           \* the citation text is longer than 20 characters
    cpc,               \* position in the body of the match loop
    match_confidence,  \* the local confidence
    appended           \* the match was appended to citations

scoreVars ==
    <<pattern_index, keyword_hits, has_year, has_name, is_long, cpc,
      match_confidence, appended>>

vars ==
    <<engineVars, batchVars, pollVars, msgVars, singleVars, parseVars, nerVars,
      searchVars, scoreVars>>

(* what the actions of each part leave alone *)
notEngine ==
    <<batchVars, pollVars, msgVars, singleVars, parseVars, nerVars,
      searchVars, scoreVars>>

notBatch ==
    <<engineVars, pollVars, msgVars, singleVars, parseVars, nerVars,
      searchVars, scoreVars>>

notPoll ==
    <<engineVars, batchVars, msgVars, singleVars, parseVars, nerVars,
      searchVars, scoreVars>>

notSingle ==
    <<engineVars, batchVars, pollVars, msgVars, parseVars, nerVars,
      searchVars, scoreVars>>

notParse ==
    <<engineVars, batchVars, pollVars, msgVars, singleVars, nerVars,
      searchVars, scoreVars>>

notNer ==
    <<engineVars, batchVars, pollVars, msgVars, singleVars, parseVars,
      searchVars, scoreVars>>

notSearch ==
    <<engineVars, batchVars, pollVars, msgVars, singleVars, parseVars, nerVars,
      scoreVars>>

notScore ==
    <<engineVars, batchVars, pollVars, msgVars, singleVars, parseVars, nerVars,
      searchVars>>

(* process_message writes self.callbacks of the engine, nothing else of it *)
notMsg ==
    <<ids, now, nobjs, task, tasks, lock, pc, timeout, wpc, wout, res, exc,
      timedOut, cbAtCreate, cbCount, cbArgs, batchVars, pollVars, singleVars,
      parseVars, nerVars, searchVars, scoreVars>>

hist == <<ids, timedOut, cbAtCreate, cbCount, cbArgs>>

Created == 1..nobjs

(* AsyncProcessor() with room for the task objects in S *)
InitEngineOn(S) ==
    /\ now = 0
    /\ nobjs = 0
    /\ task = [o \in S |-> NoTask]
    /\ tasks = [id \in TaskIds |-> 0]
    /\ callbacks = [id \in TaskIds |-> FALSE]
    /\ lock = 0
    /\ pc = [o \in S |-> "idle"]
    /\ timeout = [o \in S |-> NoneNum]
    /\ wpc = [o \in S |-> "none"]
    /\ wout = [o \in S |-> QueuesEmpty]
    /\ res = [o \in S |-> NoneVal]
    /\ exc = [o \in S |-> NoneVal]
    /\ timedOut = [o \in S |-> FALSE]
    /\ cbAtCreate = [o \in S |-> FALSE]
    /\ cbCount = [o \in S |-> 0]
    /\ cbArgs = [o \in S |-> <<>>]

InitEngine == InitEngineOn(Objs)

(* no batch call in the engine's specification *)
NoBatch ==
    /\ citations = 0
    /\ has_callback = FALSE
    /\ bpc = "returned"
    /\ i = 1
    /\ results = <<>>
    /\ e_msg = NoneVal
    /\ failed = {}
    /\ calls = <<>>

(* no get_task call yet *)
NoPoll ==
    /\ got = NoneNum
    /\ seen = NoTask

(* no process_message call *)
NoMsg ==
    /\ variant = "app"
    /\ chat_model = FALSE
    /\ ner_extractor = FALSE
    /\ fact_checker = FALSE
    /\ mpc = "returned"
    /\ response = NoneVal
    /\ msg_citations = 0
    /\ task_id = NoneVal
    /\ pending_tasks = {}
    /\ returned = NoneVal
    /\ sync_ran = FALSE

(* the result of a verification: status, confidence (in hundredths) and   *)
(* explanation                                                             *)
Verification(st, c, ex) == [status |-> st, confidence |-> c, explanation |-> ex]

NoVerification == Verification(NoneVal, 0, NoneVal)

(* no _fact_check_single_citation call *)
NoSingle ==
    /\ citation_parser = FALSE
    /\ search_client = FALSE
    /\ spc = "returned"
    /\ structured_citation = FALSE
    /\ sources_found = <<>>
    /\ verification_result = NoVerification
    /\ single_result = NoVerification
    /\ failures = {}
    /\ structured_verdict = NoVerification
    /\ llm_verdict = NoVerification

(* the fields of a citation that decide its confidence: a title, a first  *)
(* author and a year are present, an identifier is present, the confidence *)
(* (in hundredths), and whether every field has the type                   *)
(* _validate_and_clean expects                                             *)
Fields(ti, au, ye, idn, c, ok) ==
    [title |-> ti, first_author |-> au, year |-> ye, identifier |-> idn,
     confidence |-> c, well_typed |-> ok]

NoFields == Fields(FALSE, FALSE, FALSE, FALSE, 0, TRUE)

(* a StructuredCitation: extraction_method, confidence and which of title, *)
(* first_author and year are non-empty                                     *)
StructuredCitation(f, method) ==
    [extraction_method |-> method, confidence |-> f.confidence,
     title |-> f.title, first_author |-> f.first_author, year |-> f.year]

NoCitation == StructuredCitation(NoFields, NoneVal)

(* no parse_citation call *)
NoParse ==
    /\ use_llm = FALSE
    /\ citation_text = NoFields
    /\ ppc = "returned"
    /\ parsed_data = NoFields
    /\ parsed = NoCitation
    /\ llm_failure = NoneVal

(* no extract_citations call *)
NoNer ==
    /\ matches = <<>>
    /\ npc = "returned"
    /\ filtered = <<>>
    /\ extracted = <<>>

(* no citation search *)
NoSearch ==
    /\ client = "firecrawl"
    /\ direct_results = <<>>
    /\ all_results = <<>>
    /\ issued = 0
    /\ web_ran = FALSE
    /\ qpc = "returned"
    /\ evidence = <<>>

(* no pattern match being scored *)
NoScore ==
    /\ pattern_index = 0
    /\ keyword_hits = 0
    /\ has_year = FALSE
    /\ has_name = FALSE
    /\ is_long = FALSE
    /\ cpc = "done"
    /\ match_confidence = 0
    /\ appended = FALSE

(* one task id in use *)
Init ==
    /\ ids = {"t1"}
    /\ InitEngine
    /\ NoBatch
    /\ NoPoll
    /\ NoMsg
    /\ NoSingle
    /\ NoParse
    /\ NoNer
    /\ NoSearch
    /\ NoScore

(* time passes *)
Tick ==
    /\ now < MaxTime
    /\ now' = now + 1
    /\ UNCHANGED <<nobjs, task, tasks, callbacks, lock, pc, timeout, wpc, wout,
                   res, exc, hist>>
    /\ UNCHANGED notEngine

(* register_callback(task_id, callback): no lock taken *)
register_callback(id) ==
    /\ callbacks' = [callbacks EXCEPT ![id] = TRUE]
    /\ UNCHANGED <<now, nobjs, task, tasks, lock, pc, timeout, wpc, wout,
                   res, exc, hist>>
    /\ UNCHANGED notEngine

(* get_task(task_id): self.tasks.get(task_id), a reference to the object   *)
get_task(id) == tasks[id]

(* create_task: timeout defaulting, the lock-held block that constructs   *)
(* the AsyncTask and stores it in self.tasks, then thread.start()          *)
create_task_within(id, t, room) ==
    /\ nobjs < room
    /\ lock = 0
    /\ LET o == nobjs + 1 IN
         /\ nobjs' = o
         /\ task' = [task EXCEPT ![o] = AsyncTask(id, now)]
         /\ tasks' = [tasks EXCEPT ![id] = o]
         /\ timeout' = [timeout EXCEPT ![o] =
                           IF t = NoneNum THEN default_timeout ELSE t]
         /\ pc' = [pc EXCEPT ![o] = "start"]
         /\ cbAtCreate' = [cbAtCreate EXCEPT ![o] = callbacks[id]]
    /\ UNCHANGED <<ids, now, callbacks, lock, wpc, wout, res, exc, timedOut,
                   cbCount, cbArgs>>
    /\ UNCHANGED notEngine

(* create_task, at most MaxTasks times *)
create_task(id, t) == create_task_within(id, t, MaxTasks)

(* a run thread that goes on to the callable without writing PROCESSING   *)
run_mark_processing_skipped(o) ==
    /\ pc[o] = "start"
    /\ lock = 0
    /\ pc' = [pc EXCEPT ![o] = "call"]
    /\ UNCHANGED <<now, nobjs, task, tasks, callbacks, lock, timeout, wpc, wout,
                   res, exc, hist>>
    /\ UNCHANGED notEngine

(* run_task: with self._lock: task.status = TaskStatus.PROCESSING;        *)
(* task.started_at = time.time()                                           *)
run_mark_processing(o) ==
    /\ pc[o] = "start"
    /\ lock = 0
    /\ task' = [task EXCEPT ![o].status = PROCESSING, ![o].started_at = Stamp]
    /\ pc' = [pc EXCEPT ![o] = "call"]
    /\ UNCHANGED <<now, nobjs, tasks, callbacks, lock, timeout, wpc, wout, res,
                   exc, hist>>
    /\ UNCHANGED notEngine

(* _run_with_timeout: the queues are created and worker_thread.start() *)
run_start_worker(o) ==
    /\ pc[o] = "call"
    /\ wpc' = [wpc EXCEPT ![o] = "running"]
    /\ pc' = [pc EXCEPT ![o] = "join"]
    /\ UNCHANGED <<now, nobjs, task, tasks, callbacks, lock, timeout, wout,
                   res, exc, hist>>
    /\ UNCHANGED notEngine

(* what a put into the worker's queues leaves behind: once               *)
(* _run_with_timeout has raised or returned, the queues are unreachable    *)
(* and the value put into them is never read                               *)
queue_put(o, x) ==
    IF pc[o] \in {"join", "is_alive"} THEN x ELSE wout[o]

(* worker: result = func(...); result_queue.put(result) *)
worker_return(o, v) ==
    /\ wpc[o] = "running"
    /\ wout' = [wout EXCEPT ![o] = queue_put(o, Returned(v))]
    /\ wpc' = [wpc EXCEPT ![o] = "dead"]
    /\ UNCHANGED <<now, nobjs, task, tasks, callbacks, lock, pc, timeout, res,
                   exc, hist>>
    /\ UNCHANGED notEngine

(* worker: func raises; except Exception as e: exception_queue.put(e) *)
worker_raise(o, e) ==
    /\ wpc[o] = "running"
    /\ wout' = [wout EXCEPT ![o] = queue_put(o, e)]
    /\ wpc' = [wpc EXCEPT ![o] = "dead"]
    /\ UNCHANGED <<now, nobjs, task, tasks, callbacks, lock, pc, timeout, res,
                   exc, hist>>
    /\ UNCHANGED notEngine

(* the payload calls async_processor.update_progress(task_id, 0.5, partial) *)
(* as the wrappers of app.py and backend_server.py do: AsyncProcessor      *)
(* defines no such method, the attribute lookup raises AttributeError, the *)
(* task is not touched, and the exception leaves the callable              *)
update_progress(o) ==
    /\ wpc[o] = "running"
    /\ wout' = [wout EXCEPT ![o] = ExcNoUpdateProgress]
    /\ wpc' = [wpc EXCEPT ![o] = "dead"]
    /\ UNCHANGED <<now, nobjs, task, tasks, callbacks, lock, pc, timeout, res,
                   exc, hist>>
    /\ UNCHANGED notEngine

(* a join() without timeout: it returns only when the worker has ended    *)
join_waits_for_worker(o) == wpc[o] = "dead"

(* worker_thread.join(timeout=timeout) returns: the worker has ended, or   *)
(* timeout seconds have passed                                             *)
join_returns(o) == TRUE

run_join(o) ==
    /\ pc[o] = "join"
    /\ join_returns(o)
    /\ timedOut' = [timedOut EXCEPT ![o] = (wpc[o] = "running")]
    /\ pc' = [pc EXCEPT ![o] = "is_alive"]
    /\ UNCHANGED <<ids, now, nobjs, task, tasks, callbacks, lock, timeout, wpc,
                   wout, res, exc, cbAtCreate, cbCount, cbArgs>>
    /\ UNCHANGED notEngine

(* worker_thread.is_alive() *)
is_alive(o) == wpc[o] = "running"

(* an except TimeoutError clause that stores str(e), the message of the   *)
(* TimeoutError, instead of its own "Timeout after ..." text               *)
caught_message_str(o) ==
    IF is_alive(o) THEN "Function timed out after 30.0 seconds" ELSE Str(wout[o])

(* the except clause of run_task that catches what _run_with_timeout       *)
(* raises: TimeoutError (its own or the callable's) -> the timeout message,*)
(* any other Exception -> str(e)                                           *)
caught_message(o) ==
    IF is_alive(o) \/ wout[o].type = "TimeoutError"
    THEN TimeoutMsg(timeout[o])
    ELSE Str(wout[o])

(* _run_with_timeout after join: raise TimeoutError when the worker is     *)
(* alive, re-raise the queued exception, else return the queued result     *)
run_check_alive(o) ==
    /\ pc[o] = "is_alive"
    /\ IF is_alive(o) \/ wout[o].kind = "exc"
       THEN /\ exc' = [exc EXCEPT ![o] = caught_message(o)]
            /\ pc' = [pc EXCEPT ![o] = "set_error"]
            /\ res' = res
       ELSE /\ res' = [res EXCEPT ![o] =
                          IF wout[o].kind = "ret" THEN wout[o].val ELSE NoneVal]
            /\ pc' = [pc EXCEPT ![o] = "set_result"]
            /\ exc' = exc
    /\ UNCHANGED <<now, nobjs, task, tasks, callbacks, lock, timeout, wpc,
                   wout, hist>>
    /\ UNCHANGED notEngine

(* success: with self._lock: task.result = result *)
run_set_result(o) ==
    /\ pc[o] = "set_result"
    /\ lock = 0
    /\ lock' = o
    /\ task' = [task EXCEPT ![o].result = res[o]]
    /\ pc' = [pc EXCEPT ![o] = "set_completed"]
    /\ UNCHANGED <<now, nobjs, tasks, callbacks, timeout, wpc, wout, res, exc,
                   hist>>
    /\ UNCHANGED notEngine

(* success: task.status = TaskStatus.COMPLETED *)
run_set_completed(o) ==
    /\ pc[o] = "set_completed"
    /\ task' = [task EXCEPT ![o].status = COMPLETED]
    /\ pc' = [pc EXCEPT ![o] = "set_completed_at"]
    /\ UNCHANGED <<now, nobjs, tasks, callbacks, lock, timeout, wpc, wout, res,
                   exc, hist>>
    /\ UNCHANGED notEngine

(* success: task.completed_at = time.time() *)
run_set_completed_at(o) ==
    /\ pc[o] = "set_completed_at"
    /\ task' = [task EXCEPT ![o].completed_at = Stamp]
    /\ pc' = [pc EXCEPT ![o] = "set_progress"]
    /\ UNCHANGED <<now, nobjs, tasks, callbacks, lock, timeout, wpc, wout, res,
                   exc, hist>>
    /\ UNCHANGED notEngine

(* success: task.progress = 1.0, end of the lock-held block *)
run_set_progress(o) ==
    /\ pc[o] = "set_progress"
    /\ task' = [task EXCEPT ![o].progress = ProgressDone]
    /\ lock' = 0
    /\ pc' = [pc EXCEPT ![o] = "callback_check"]
    /\ UNCHANGED <<now, nobjs, tasks, callbacks, timeout, wpc, wout, res, exc,
                   hist>>
    /\ UNCHANGED notEngine

(* failure: with self._lock: task.error = <message> *)
run_set_error(o) ==
    /\ pc[o] = "set_error"
    /\ lock = 0
    /\ lock' = o
    /\ task' = [task EXCEPT ![o].error = exc[o]]
    /\ pc' = [pc EXCEPT ![o] = "set_error_status"]
    /\ UNCHANGED <<now, nobjs, tasks, callbacks, timeout, wpc, wout, res, exc,
                   hist>>
    /\ UNCHANGED notEngine

(* failure: task.status = TaskStatus.ERROR *)
run_set_error_status(o) ==
    /\ pc[o] = "set_error_status"
    /\ task' = [task EXCEPT ![o].status = ERROR]
    /\ pc' = [pc EXCEPT ![o] = "set_error_at"]
    /\ UNCHANGED <<now, nobjs, tasks, callbacks, lock, timeout, wpc, wout, res,
                   exc, hist>>
    /\ UNCHANGED notEngine

(* failure: task.completed_at = time.time(), end of the lock-held block *)
run_set_error_at(o) ==
    /\ pc[o] = "set_error_at"
    /\ task' = [task EXCEPT ![o].completed_at = Stamp]
    /\ lock' = 0
    /\ pc' = [pc EXCEPT ![o] = "callback_check"]
    /\ UNCHANGED <<now, nobjs, tasks, callbacks, timeout, wpc, wout, res, exc,
                   hist>>
    /\ UNCHANGED notEngine

(* if task_id in self.callbacks: (read without the lock) *)
run_callback_check(o) ==
    /\ pc[o] = "callback_check"
    /\ pc' = [pc EXCEPT ![o] =
                 IF callbacks[task[o].id] THEN "callback_call" ELSE "done"]
    /\ UNCHANGED <<now, nobjs, task, tasks, callbacks, lock, timeout, wpc,
                   wout, res, exc, hist>>
    /\ UNCHANGED notEngine

(* an error callback that is called like the success callback             *)
callback_args_no_error(o) == <<task[o].id, res[o]>>

(* the arguments of the callback: (task_id, result) after success,         *)
(* (task_id, None, error=<message>) after a failure                        *)
callback_args(o) ==
    IF exc[o] = NoneVal
    THEN <<task[o].id, res[o]>>
    ELSE <<task[o].id, NoneVal, exc[o]>>

(* a callback call outside the inner try: its exception reaches the       *)
(* outer "except Exception" clause of run_task                             *)
after_callback_unprotected(o, raised) == IF raised THEN "set_error" ELSE "done"

(* where the run thread goes when the callback has returned (raised =      *)
(* FALSE) or the call has raised (raised = TRUE): the inner                *)
(* "except Exception" clause catches everything the call raises            *)
after_callback(o, raised) == IF raised THEN "callback_except" ELSE "done"

(* self.callbacks[task_id](...) inside try/except Exception.  The lookup   *)
(* raises KeyError when the entry was removed after the membership test.   *)
run_callback_call(o, raised) ==
    /\ pc[o] = "callback_call"
    /\ IF callbacks[task[o].id]
       THEN /\ cbCount' = [cbCount EXCEPT ![o] = @ + 1]
            /\ cbArgs' = [cbArgs EXCEPT ![o] = callback_args(o)]
            /\ pc' = [pc EXCEPT ![o] = after_callback(o, raised)]
       ELSE /\ raised
            /\ pc' = [pc EXCEPT ![o] = after_callback(o, TRUE)]
            /\ UNCHANGED <<cbCount, cbArgs>>
    /\ UNCHANGED <<ids, now, nobjs, task, tasks, callbacks, lock, timeout, wpc,
                   wout, res, exc, timedOut, cbAtCreate>>
    /\ UNCHANGED notEngine

(* except Exception as e: print(f"Callback error for task ..."): the       *)
(* exception is dropped and run_task returns                               *)
run_callback_except(o) ==
    /\ pc[o] = "callback_except"
    /\ pc' = [pc EXCEPT ![o] = "done"]
    /\ UNCHANGED <<now, nobjs, task, tasks, callbacks, lock, timeout, wpc,
                   wout, res, exc, hist>>
    /\ UNCHANGED notEngine

(* a cleanup that also evicts the tasks whose age equals max_age *)
old_tasks_ge(max_age) ==
    {id \in TaskIds : tasks[id] # 0 /\ now - task[tasks[id]].created_at >= max_age}

(* an eviction by status: the tasks that are not yet completed or error   *)
(* go whatever their age, the others stay whatever their age               *)
old_tasks_unfinished(max_age) ==
    {id \in TaskIds :
        tasks[id] # 0 /\ task[tasks[id]].status \in {PENDING, PROCESSING}}

(* cleanup_old_tasks(max_age): under the lock, every task with             *)
(* current_time - created_at > max_age leaves self.tasks, and its id       *)
(* leaves self.callbacks                                                   *)
old_tasks(max_age) ==
    {id \in TaskIds : tasks[id] # 0 /\ now - task[tasks[id]].created_at > max_age}

cleanup_old_tasks(max_age) ==
    /\ lock = 0
    /\ tasks' = [id \in TaskIds |->
                    IF id \in old_tasks(max_age) THEN 0 ELSE tasks[id]]
    /\ callbacks' = [id \in TaskIds |->
                        IF id \in old_tasks(max_age) THEN FALSE ELSE callbacks[id]]
    /\ UNCHANGED <<now, nobjs, task, lock, pc, timeout, wpc, wout, res, exc,
                   hist>>
    /\ UNCHANGED notEngine

Next ==
    \/ Tick
    \/ \E id \in ids : register_callback(id)
    \/ \E id \in ids, t \in TimeoutArgs : create_task(id, t)
    \/ \E o \in Objs : run_mark_processing(o)
    \/ \E o \in Objs : run_start_worker(o)
    \/ \E o \in Objs, v \in ReturnValues : worker_return(o, v)
    \/ \E o \in Objs, e \in {ExcBoom, ExcInnerTimeout} : worker_raise(o, e)
    \/ \E o \in Objs : update_progress(o)
    \/ \E o \in Objs : run_join(o)
    \/ \E o \in Objs : run_check_alive(o)
    \/ \E o \in Objs : run_set_result(o)
    \/ \E o \in Objs : run_set_completed(o)
    \/ \E o \in Objs : run_set_completed_at(o)
    \/ \E o \in Objs : run_set_progress(o)
    \/ \E o \in Objs : run_set_error(o)
    \/ \E o \in Objs : run_set_error_status(o)
    \/ \E o \in Objs : run_set_error_at(o)
    \/ \E o \in Objs : run_callback_check(o)
    \/ \E o \in Objs, raised \in BOOLEAN : run_callback_call(o, raised)
    \/ \E o \in Objs : run_callback_except(o)
    \/ \E max_age \in Times : cleanup_old_tasks(max_age)

Spec == Init /\ [][Next]_vars

(* ---------------------------------------------------------------------- *)
(* The registry with one task per id (specification SpecRegistry): the     *)
(* state after create_task has been called for every id of TaskIds, at     *)
(* any times up to now, with the run thread of each task at any of its     *)
(* positions outside the lock-held blocks; then the callers register       *)
(* callbacks and call cleanup_old_tasks while time passes.                 *)
(* ---------------------------------------------------------------------- *)
RegObjs == 1..Cardinality(TaskIds)

(* the object create_task constructed for each id *)
ObjOf(id) == IF id = "t1" THEN 1 ELSE 2

(* the AsyncTask created at time t whose run thread has brought it to      *)
(* status st                                                               *)
TaskAt(id, t, st) ==
    [id |-> id, status |-> st,
     result |-> IF st = COMPLETED THEN "R" ELSE NoneVal,
     error |-> IF st = ERROR THEN Str(ExcBoom) ELSE NoneVal,
     created_at |-> t,
     started_at |-> IF st = PENDING THEN NoneNum ELSE Stamp,
     completed_at |-> IF st \in TerminalStatuses THEN Stamp ELSE NoneNum,
     progress |-> IF st = COMPLETED THEN ProgressDone ELSE ProgressDefault]

(* where the run thread of a task with status st is *)
ThreadAt(st) ==
    IF st = PENDING THEN "start" ELSE IF st = PROCESSING THEN "call" ELSE "done"

InitRegistry ==
    /\ ids = TaskIds
    /\ now \in Times
    /\ nobjs = Cardinality(TaskIds)
    /\ \E created \in [RegObjs -> 0..now],
          st \in [RegObjs -> {PENDING, PROCESSING, COMPLETED, ERROR}] :
          /\ task = [o \in RegObjs |->
                        TaskAt(IF o = 1 THEN "t1" ELSE "t2", created[o], st[o])]
          /\ pc = [o \in RegObjs |-> ThreadAt(st[o])]
          /\ wpc = [o \in RegObjs |->
                       IF st[o] \in TerminalStatuses THEN "dead" ELSE "none"]
          /\ res = [o \in RegObjs |->
                       IF st[o] = COMPLETED THEN "R" ELSE NoneVal]
          /\ exc = [o \in RegObjs |->
                       IF st[o] = ERROR THEN Str(ExcBoom) ELSE NoneVal]
    /\ tasks = [id \in TaskIds |-> ObjOf(id)]
    /\ callbacks \in [TaskIds -> BOOLEAN]
    /\ lock = 0
    /\ timeout = [o \in RegObjs |-> default_timeout]
    /\ wout = [o \in RegObjs |-> QueuesEmpty]
    /\ timedOut = [o \in RegObjs |-> FALSE]
    /\ cbAtCreate = [o \in RegObjs |-> FALSE]
    /\ cbCount = [o \in RegObjs |-> 0]
    /\ cbArgs = [o \in RegObjs |-> <<>>]
    /\ NoBatch
    /\ NoPoll
    /\ NoMsg
    /\ NoSingle
    /\ NoParse
    /\ NoNer
    /\ NoSearch
    /\ NoScore

NextRegistry ==
    \/ Tick
    \/ \E id \in ids : register_callback(id)
    \/ \E max_age \in Times : cleanup_old_tasks(max_age)

SpecRegistry == InitRegistry /\ [][NextRegistry]_vars

(* a caller calls get_task(task_id) and keeps what it returns: the object  *)
(* stored in self.tasks, or None.  Nothing of the engine is written.       *)
get_task_call(id) ==
    /\ got' = get_task(id)
    /\ seen' = IF get_task(id) = 0 THEN NoTask ELSE task[get_task(id)]
    /\ UNCHANGED notPoll

(* the engine with a caller that polls get_task *)
NextPoll ==
    \/ Next
    \/ \E id \in ids : get_task_call(id)

SpecPoll == Init /\ [][NextPoll]_vars

(* the steps of the run thread of object o *)
RunThread(o) ==
    \/ run_mark_processing(o)
    \/ run_start_worker(o)
    \/ run_join(o)
    \/ run_check_alive(o)
    \/ run_set_result(o)
    \/ run_set_completed(o)
    \/ run_set_completed_at(o)
    \/ run_set_progress(o)
    \/ run_set_error(o)
    \/ run_set_error_status(o)
    \/ run_set_error_at(o)
    \/ run_callback_check(o)
    \/ \E raised \in BOOLEAN : run_callback_call(o, raised)
    \/ run_callback_except(o)

(* Threads are scheduled fairly: a run thread that can take a step         *)
(* eventually takes it (join(timeout) returns after timeout seconds at the *)
(* latest).  Nothing is assumed of the worker - the callable may never     *)
(* return - nor of the callers of the engine.                              *)
FairSpec == Init /\ [][Next]_vars /\ \A o \in Objs : WF_vars(RunThread(o))

(* ---------------------------------------------------------------------- *)
(* Claims about the task engine                                            *)
(* ---------------------------------------------------------------------- *)
Terminal(o) == task[o].status \in TerminalStatuses

(* C1: once a task's status is completed or error, no later step changes   *)
(* its status, result, error, completed_at or progress.                    *)
C1_TerminalIsFinal ==
    [][\A o \in Objs :
          Terminal(o) =>
              /\ task'[o].status = task[o].status
              /\ task'[o].result = task[o].result
              /\ task'[o].error = task[o].error
              /\ task'[o].completed_at = task[o].completed_at
              /\ task'[o].progress = task[o].progress]_vars

(* C2: the status of every task goes pending, processing, then completed   *)
(* or error: the task is registered as pending when its thread is started, *)
(* processing is written before the callable is invoked, and no step moves *)
(* the status backwards, skips processing or swaps completed and error.    *)
C2_StatusSequence ==
    [][\A o \in Objs :
          /\ task'[o].status # task[o].status =>
                <<task[o].status, task'[o].status>> \in
                    {<<"none", PENDING>>, <<PENDING, PROCESSING>>,
                     <<PROCESSING, COMPLETED>>, <<PROCESSING, ERROR>>}
          /\ (pc[o] = "idle" /\ pc'[o] # "idle") =>
                /\ task'[o].status = PENDING
                /\ tasks'[task'[o].id] = o
          /\ (wpc[o] = "none" /\ wpc'[o] # "none") =>
                task[o].status = PROCESSING]_vars

C2_Witness ==
    \E o \in Objs : pc[o] = "done" /\ task[o].status = COMPLETED

C4_CallbackExactlyOnce ==
    [][\A o \in Objs :
          /\ (cbAtCreate[o] /\ pc'[o] = "done") => cbCount'[o] = 1
          /\ (cbAtCreate[o] /\ cbCount'[o] # cbCount[o]) =>
                /\ get_task(task[o].id) # 0
                /\ task[get_task(task[o].id)].status \in TerminalStatuses]_vars

(* C4 amended: the callback is invoked at most once per task, and exactly  *)
(* once when a callback is registered under the task's id both at the run  *)
(* thread's membership test and at its lookup (cleanup_old_tasks removes   *)
(* the callback of a task it evicts, also of a running one); it is invoked *)
(* only after the task object's terminal status has been written, with     *)
(* (task id, result) after completed and (task id, None, error message)    *)
(* after error or timeout.                                                 *)
C4_CallbackOnceIfRegistered ==
    [][\A o \in Objs :
          /\ cbCount'[o] # cbCount[o] =>
                /\ cbCount[o] = 0 /\ cbCount'[o] = 1
                /\ callbacks[task[o].id]
                /\ Terminal(o)
                /\ task[o].status = COMPLETED =>
                      cbArgs'[o] = <<task[o].id, task[o].result>>
                /\ task[o].status = ERROR =>
                      cbArgs'[o] = <<task[o].id, NoneVal, task[o].error>>
          /\ (pc[o] = "callback_check" /\ callbacks[task[o].id]
                   /\ pc'[o] # pc[o]) => pc'[o] = "callback_call"
          /\ (pc[o] = "callback_call" /\ callbacks[task[o].id]
                   /\ pc'[o] # pc[o]) => cbCount'[o] = 1
          /\ pc[o] = "done" => pc'[o] = "done" /\ cbCount'[o] = cbCount[o]]_vars

C4_Witness ==
    \E o \in Objs :
        /\ cbAtCreate[o]
        /\ pc[o] = "done"
        /\ cbCount[o] = 1
        /\ task[o].status = ERROR
        /\ cbArgs[o] = <<task[o].id, NoneVal, TimeoutMsg(timeout[o])>>

(* C8: once the payload has called update_progress(task_id, 0.5, partial)  *)
(* and while the task is not terminal, get_task(task_id).progress is 0.5.  *)
C8_ProgressIsHalf ==
    \A o \in Objs :
        (wout[o] = ExcNoUpdateProgress /\ ~Terminal(o)) => task[o].progress = 50

(* C9: under fair scheduling every created task eventually reaches         *)
(* completed or error, also when the callable never returns.               *)
C9_EventuallyTerminal ==
    \A o \in Objs : (pc[o] # "idle") ~> Terminal(o)

(* the task is marked error while its worker is still running *)
C9_Witness ==
    \E o \in Objs : task[o].status = ERROR /\ wpc[o] = "running"

(* C10: when the callback call raises, the run thread goes through its     *)
(* except clause to its end, and the task keeps the terminal status,       *)
(* result and error written before the call.                               *)
C10_CallbackExceptionSwallowed ==
    [][\A o \in Objs :
          /\ (pc[o] = "callback_call" /\ pc'[o] # pc[o]) =>
                pc'[o] \in {"callback_except", "done"}
          /\ (pc[o] = "callback_except" /\ pc'[o] # pc[o]) => pc'[o] = "done"
          /\ pc[o] \in {"callback_call", "callback_except", "done"} =>
                /\ Terminal(o)
                /\ task'[o] = task[o]
                /\ task[o].status = COMPLETED =>
                      task[o].result = res[o] /\ task[o].error = NoneVal
                /\ task[o].status = ERROR =>
                      task[o].result = NoneVal /\ task[o].error = exc[o]]_vars

C10_Witness ==
    \E o \in Objs :
        /\ pc[o] = "callback_except"
        /\ cbCount[o] = 1
        /\ task[o].status = COMPLETED
        /\ task[o].result = "R"

(* C11: every read and every write of self.tasks and self.callbacks is     *)
(* performed while holding the processor's lock; so no step reads or       *)
(* writes a registry while another thread holds the lock.                  *)
C11_RegistryUnderLock ==
    [][/\ (tasks' # tasks \/ callbacks' # callbacks) => lock = 0
       /\ \A o \in Objs :
             (pc[o] \in {"callback_check", "callback_call"} /\ pc'[o] # pc[o]) =>
                 lock \in {0, o}]_vars

(* C12: get_task returns None for an id that is not registered and        *)
(* changes no engine state; what it returned for a registered id keeps the *)
(* status, result, error and progress it had when it was returned.         *)
C12_GetTaskSnapshot ==
    [][/\ \A id \in ids :
             get_task_call(id) =>
                 /\ tasks[id] = 0 => got' = 0
                 /\ UNCHANGED engineVars
       /\ got' > 0 =>
             /\ task'[got'].status = seen'.status
             /\ task'[got'].result = seen'.result
             /\ task'[got'].error = seen'.error
             /\ task'[got'].progress = seen'.progress]_vars

(* C13: whatever get_task returns shows a consistent task: completed with  *)
(* progress 1.0, the callable's return value and no error; error with an   *)
(* error message and no result; pending or processing with neither.        *)
C13_ObservableConsistent ==
    \A id \in TaskIds :
        get_task(id) # 0 =>
            LET o == get_task(id) IN
              /\ task[o].status = COMPLETED =>
                    /\ task[o].progress = ProgressDone
                    /\ task[o].result = res[o]
                    /\ task[o].error = NoneVal
              /\ task[o].status = ERROR =>
                    task[o].error # NoneVal /\ task[o].result = NoneVal
              /\ task[o].status \in {PENDING, PROCESSING} =>
                    task[o].result = NoneVal /\ task[o].error = NoneVal

(* C14: when the callable has raised an exception (before the engine's     *)
(* test of the worker), the task ends in error with error = str(e), for    *)
(* every exception type, a TimeoutError of the callable included.          *)
C14_ErrorIsStrOfException ==
    \A o \in Objs :
        (wout[o].kind = "exc" /\ pc[o] = "done") =>
            task[o].status = ERROR /\ task[o].error = Str(wout[o])

(* C15: cleanup_old_tasks(max_age) removes from the registry exactly the   *)
(* tasks whose age (now - created_at) exceeds max_age, with the callbacks  *)
(* registered under their ids, and changes no other task or callback.      *)
C15_CleanupExact ==
    [][\A max_age \in Times :
          cleanup_old_tasks(max_age) =>
              /\ \A id \in TaskIds :
                    IF tasks[id] # 0 /\ now - task[tasks[id]].created_at > max_age
                    THEN tasks'[id] = 0 /\ ~callbacks'[id]
                    ELSE tasks'[id] = tasks[id] /\ callbacks'[id] = callbacks[id]
              /\ task' = task]_vars

(* one task has been evicted with its callback, the other task and its     *)
(* callback are still registered                                           *)
C15_Witness ==
    \E a \in TaskIds, b \in TaskIds :
        /\ tasks[a] = 0 /\ ~callbacks[a]
        /\ tasks[b] # 0 /\ callbacks[b]
        /\ now - task[tasks[b]].created_at = 0

(* C27: cleanup_old_tasks only ever evicts tasks that are completed or     *)
(* error; a task that is still pending or processing stays in the          *)
(* registry.                                                               *)
C27_OnlyTerminalEvicted ==
    [][\A max_age \in Times :
          cleanup_old_tasks(max_age) =>
              \A id \in TaskIds :
                  (tasks[id] # 0 /\ tasks'[id] = 0) =>
                      task[tasks[id]].status \in TerminalStatuses]_vars

(* C27 as the code has it: cleanup_old_tasks evicts by age alone.  A task  *)
(* that is still pending or processing leaves the registry, with its       *)
(* callback, exactly when it is older than max_age; its run thread goes on *)
(* with the detached task object.                                          *)
C27_RunningEvictedByAge ==
    [][\A max_age \in Times :
          cleanup_old_tasks(max_age) =>
              /\ \A id \in TaskIds :
                    (tasks[id] # 0
                     /\ task[tasks[id]].status \in {PENDING, PROCESSING}) =>
                        IF now - task[tasks[id]].created_at > max_age
                        THEN get_task(id)' = 0 /\ ~callbacks'[id]
                        ELSE /\ get_task(id)' = get_task(id)
                             /\ callbacks'[id] = callbacks[id]
              /\ task' = task
              /\ pc' = pc]_vars

(* a task that is processing has been evicted, with the callback that was *)
(* registered for it when it was created                                   *)
C27_Witness ==
    \E o \in Objs :
        /\ o <= nobjs
        /\ task[o].status = PROCESSING
        /\ get_task(task[o].id) = 0
        /\ cbAtCreate[o]
        /\ ~callbacks[task[o].id]

(* ---------------------------------------------------------------------- *)
(* Part 2 (specification SpecBatch): FactChecker.fact_check_citations of   *)
(* src/models/fact_checker.py.  The pipeline of one citation               *)
(* (_fact_check_single_citation) either returns a result or raises; the    *)
(* progress callback either returns or raises.                             *)
(* ---------------------------------------------------------------------- *)

(* verification_status values a pipeline can return *)
PipelineStatuses == {"verified", "not_found"}

PipelineFailure == "pipeline failed"

CallbackFailure == "callback failed"

(* what _fact_check_single_citation returns for citation c *)
FactCheckResult(c, status) ==
    [citation |-> c, verification_status |-> status, confidence |-> 80,
     explanation |-> "checked"]

(* f"Error during fact-checking: {str(e)}" *)
ErrorExplanation(msg) ==
    IF msg = PipelineFailure
    THEN "Error during fact-checking: pipeline failed"
    ELSE "Error during fact-checking: callback failed"

(* the error_result built by the except clause of the loop *)
ErrorResult(c, msg) ==
    [citation |-> c, verification_status |-> "error", confidence |-> 0,
     explanation |-> ErrorExplanation(msg)]

(* progress = (i + 1) / total_citations, as numerator and denominator *)
Progress(k, total) == [num |-> k, den |-> total]

(* fact_check_citations is called with 0..MaxCitations citations, with or  *)
(* without a progress callback: results = [], the loop starts              *)
InitBatch ==
    /\ ids = {}
    /\ InitEngine
    /\ citations \in 0..MaxCitations
    /\ has_callback \in BOOLEAN
    /\ bpc = (IF citations = 0 THEN "returned" ELSE "try")
    /\ i = 1
    /\ results = <<>>
    /\ e_msg = NoneVal
    /\ failed = {}
    /\ calls = <<>>
    /\ NoPoll
    /\ NoMsg
    /\ NoSingle
    /\ NoParse
    /\ NoNer
    /\ NoSearch
    /\ NoScore

(* the end of one loop iteration: the next citation, or return results *)
NextIteration ==
    IF i < citations THEN i' = i + 1 /\ bpc' = "try"
    ELSE i' = i /\ bpc' = "returned"

(* result = self._fact_check_single_citation(citation);                    *)
(* results.append(result)                                                  *)
single_returns(status) ==
    /\ bpc = "try"
    /\ results' = Append(results, FactCheckResult(i, status))
    /\ IF has_callback THEN bpc' = "callback" /\ i' = i ELSE NextIteration
    /\ UNCHANGED <<citations, has_callback, e_msg, failed, calls>>
    /\ UNCHANGED notBatch

(* self._fact_check_single_citation(citation) raises: except Exception *)
single_raises ==
    /\ bpc = "try"
    /\ e_msg' = PipelineFailure
    /\ failed' = failed \cup {i}
    /\ bpc' = "except"
    /\ UNCHANGED <<citations, has_callback, i, results, calls>>
    /\ UNCHANGED notBatch

(* progress_callback(progress, result) inside the try block: when it       *)
(* raises, the except clause of the same iteration runs                    *)
callback_in_try(raised) ==
    /\ bpc = "callback"
    /\ calls' = Append(calls, [progress |-> Progress(i, citations),
                               result |-> results[Len(results)]])
    /\ IF raised
       THEN e_msg' = CallbackFailure /\ bpc' = "except" /\ i' = i
       ELSE e_msg' = e_msg /\ NextIteration
    /\ UNCHANGED <<citations, has_callback, results, failed>>
    /\ UNCHANGED notBatch

(* except Exception as e: results.append(error_result) *)
except_appends ==
    /\ bpc = "except"
    /\ results' = Append(results, ErrorResult(i, e_msg))
    /\ IF has_callback THEN bpc' = "except_callback" /\ i' = i
       ELSE NextIteration
    /\ UNCHANGED <<citations, has_callback, e_msg, failed, calls>>
    /\ UNCHANGED notBatch

(* progress_callback(progress, error_result) inside the except clause:     *)
(* when it raises, the exception leaves fact_check_citations               *)
callback_in_except(raised) ==
    /\ bpc = "except_callback"
    /\ calls' = Append(calls, [progress |-> Progress(i, citations),
                               result |-> results[Len(results)]])
    /\ IF raised THEN bpc' = "raised" /\ i' = i ELSE NextIteration
    /\ UNCHANGED <<citations, has_callback, results, e_msg, failed>>
    /\ UNCHANGED notBatch

NextBatch ==
    \/ \E status \in PipelineStatuses : single_returns(status)
    \/ single_raises
    \/ \E raised \in BOOLEAN : callback_in_try(raised)
    \/ except_appends
    \/ \E raised \in BOOLEAN : callback_in_except(raised)

SpecBatch == InitBatch /\ [][NextBatch]_vars

(* ---------------------------------------------------------------------- *)
(* Claims about fact_check_citations                                       *)
(* ---------------------------------------------------------------------- *)

(* C5: fact_check_citations always returns, with exactly len(citations)    *)
(* results, the i-th of them for the i-th citation, whatever the pipelines *)
(* and the progress callback do.                                           *)
C5_OneResultPerCitation ==
    /\ bpc # "raised"
    /\ bpc = "returned" =>
          /\ Len(results) = citations
          /\ \A k \in 1..Len(results) : results[k].citation = k

(* C6: a citation whose pipeline raised gets a result with status error,   *)
(* confidence 0.0 and the failure message; the batch goes on, the call     *)
(* does not raise and every other citation gets its own result.            *)
C6_FailureIsRecorded ==
    /\ (failed # {} => bpc # "raised")
    /\ bpc = "returned" =>
          /\ \A k \in failed :
                ErrorResult(k, PipelineFailure) \in
                    {results[j] : j \in 1..Len(results)}
          /\ \A k \in 1..citations :
                \E j \in 1..Len(results) : results[j].citation = k

(* C7: the progress callback is invoked once per citation, in input order, *)
(* the k-th invocation with fraction k/n and the result of citation k.     *)
C7_ProgressOncePerCitation ==
    /\ \A k \in 1..Len(calls) :
          /\ calls[k].progress = Progress(k, citations)
          /\ calls[k].result.citation = k
    /\ (bpc = "returned" /\ has_callback) => Len(calls) = citations

(* ---------------------------------------------------------------------- *)
(* Part 3 (specification SpecMsg): process_message of src/app.py           *)
(* (CitationFactChecker) and src/backend_server.py (CitationAPI), up to    *)
(* its return.                                                             *)
(* ---------------------------------------------------------------------- *)
ResponseOk == "response"

ResponseError == "Error generating response: chat failed"

ResponseUnavailable ==
    "Chat model not available. Please check your configuration."

(* one call of process_message on an application object with any of the    *)
(* three models present or absent                                          *)
InitMsg ==
    /\ ids = TaskIds
    /\ InitEngine
    /\ NoBatch
    /\ NoPoll
    /\ NoSingle
    /\ NoParse
    /\ NoNer
    /\ NoSearch
    /\ NoScore
    /\ variant \in {"app", "backend"}
    /\ chat_model \in BOOLEAN
    /\ ner_extractor \in BOOLEAN
    /\ fact_checker \in BOOLEAN
    /\ mpc = "chat"
    /\ response = NoneVal
    /\ msg_citations = 0
    /\ task_id = NoneVal
    /\ pending_tasks = {}
    /\ returned = NoneVal
    /\ sync_ran = FALSE

(* step 1: response = self.chat_model.chat(...), or the error text when    *)
(* the call raises, or the fixed text when there is no chat model          *)
msg_chat(raised) ==
    /\ mpc = "chat"
    /\ response' = IF ~chat_model THEN ResponseUnavailable
                   ELSE IF raised THEN ResponseError ELSE ResponseOk
    /\ mpc' = "extract"
    /\ UNCHANGED <<variant, chat_model, ner_extractor, fact_checker,
                   msg_citations, task_id, pending_tasks, returned, sync_ran,
                   callbacks>>
    /\ UNCHANGED notMsg

(* step 2: citations = self.ner_extractor.extract_citations(response); the *)
(* list stays empty without an extractor or when the extraction raises     *)
(* (step 3 of app.py formats the response into locals that the rest of    *)
(* the function only returns)                                              *)
msg_extract(n, raised) ==
    /\ mpc = "extract"
    /\ msg_citations' = IF ner_extractor /\ ~raised THEN n ELSE 0
    /\ mpc' = "start"
    /\ UNCHANGED <<variant, chat_model, ner_extractor, fact_checker, response,
                   task_id, pending_tasks, returned, sync_ran, callbacks>>
    /\ UNCHANGED notMsg

(* if citations and self.fact_checker: task_id = create_async_task_id();   *)
(* self.pending_tasks[task_id] = {...}; otherwise return with task_id None *)
msg_start(id) ==
    /\ mpc = "start"
    /\ IF msg_citations > 0 /\ fact_checker
       THEN /\ task_id' = id
            /\ pending_tasks' = pending_tasks \cup {id}
            /\ mpc' = "register_callback"
            /\ returned' = returned
       ELSE /\ returned' = task_id
            /\ mpc' = "returned"
            /\ UNCHANGED <<task_id, pending_tasks>>
    /\ UNCHANGED <<variant, chat_model, ner_extractor, fact_checker, response,
                   msg_citations, sync_ran, callbacks>>
    /\ UNCHANGED notMsg

(* async_processor.register_callback(task_id, self._on_fact_check_complete) *)
msg_register_callback ==
    /\ mpc = "register_callback"
    /\ callbacks' = [callbacks EXCEPT ![task_id] = TRUE]
    /\ mpc' = "register_progress_callback"
    /\ UNCHANGED <<variant, chat_model, ner_extractor, fact_checker, response,
                   msg_citations, task_id, pending_tasks, returned, sync_ran>>
    /\ UNCHANGED notMsg

(* async_processor.register_progress_callback(...): AsyncProcessor defines *)
(* no such method, the attribute lookup raises AttributeError and the      *)
(* "except Exception" clause of process_message runs; the create_task call *)
(* that follows in the try block is never reached                          *)
msg_register_progress_callback ==
    /\ mpc = "register_progress_callback"
    /\ mpc' = "except"
    /\ UNCHANGED <<variant, chat_model, ner_extractor, fact_checker, response,
                   msg_citations, task_id, pending_tasks, returned, sync_ran,
                   callbacks>>
    /\ UNCHANGED notMsg

(* except Exception: app.py falls back to                                  *)
(* self.fact_checker.fact_check_citations(citations) on the calling thread *)
(* and returns task id None, whether the fallback raises or not;           *)
(* backend_server.py prints the exception and returns the task_id it made  *)
msg_except(raised) ==
    /\ mpc = "except"
    /\ IF variant = "app"
       THEN sync_ran' = TRUE /\ returned' = NoneVal
       ELSE sync_ran' = sync_ran /\ returned' = task_id /\ ~raised
    /\ mpc' = "returned"
    /\ UNCHANGED <<variant, chat_model, ner_extractor, fact_checker, response,
                   msg_citations, task_id, pending_tasks, callbacks>>
    /\ UNCHANGED notMsg

NextMsg ==
    \/ \E raised \in BOOLEAN : msg_chat(raised)
    \/ \E n \in 0..MaxCitations, raised \in BOOLEAN : msg_extract(n, raised)
    \/ \E id \in ids : msg_start(id)
    \/ msg_register_callback
    \/ msg_register_progress_callback
    \/ \E raised \in BOOLEAN : msg_except(raised)

SpecMsg == InitMsg /\ [][NextMsg]_vars

(* C28: when starting the async task fails inside process_message of       *)
(* app.py, the method falls back to synchronous fact-checking, returns no  *)
(* task id, and leaves no entry for the generated id in pending_tasks and  *)
(* no callback registered in the processor.                                *)
C28_FailedStartLeavesNothing ==
    (mpc = "returned" /\ variant = "app" /\ task_id # NoneVal) =>
        /\ sync_ran
        /\ returned = NoneVal
        /\ task_id \notin pending_tasks
        /\ ~callbacks[task_id]

(* C16: when process_message has found at least one citation and a fact    *)
(* checker is available, it returns the id of a task registered in the     *)
(* async processor and has not run the batch on the request thread.        *)
C16_TaskRegistered ==
    (mpc = "returned" /\ msg_citations > 0 /\ fact_checker) =>
        /\ returned \in TaskIds
        /\ get_task(returned) # 0
        /\ ~sync_ran

(* ---------------------------------------------------------------------- *)
(* Part 4 (specification SpecSingle): FactChecker._fact_check_single_citation *)
(* of src/models/fact_checker.py with _verify_citation_enhanced,           *)
(* _verify_with_structured_data and _verify_citation.  Confidences are in  *)
(* hundredths.                                                             *)
(* ---------------------------------------------------------------------- *)

(* the confidence a source record carries: an ordinary search result, a    *)
(* direct validation (above 0.9), a value above 1.0                        *)
SourceConfidences == {50, 95, 150}

SourceLists == UNION {[1..n -> SourceConfidences] : n \in 0..MaxSources}

(* best_score of _verify_with_structured_data: no match, partial matches   *)
(* and good matches, with the scores at the two thresholds                 *)
MatchScores == {0, 40, 50, 70, 71, 90}

(* what the source_verifier call of _verify_citation does: it raises, or   *)
(* it returns a status and a confidence text that float() parses to        *)
(* reported, or does not parse                                             *)
VerifierReply(r, st, c, ok) ==
    [raised |-> r, status |-> st, reported |-> c, parsable |-> ok]

VerifierOutcomes ==
    {VerifierReply(TRUE, NoneVal, 0, FALSE)} \cup
    {VerifierReply(FALSE, st, c, ok) :
        st \in PipelineStatuses, c \in {-50, 50, 150}, ok \in BOOLEAN}

Min(a, b) == IF a < b THEN a ELSE b

Max(a, b) == IF a > b THEN a ELSE b

(* max(0.0, min(1.0, confidence)) *)
Clamp(c) == Max(0, Min(100, c))

(* the confidences of direct_validations: the sources above 0.9 *)
direct_validations(sources) ==
    {sources[k] : k \in {j \in 1..Len(sources) : sources[j] > 90}}

(* best_validation.get("confidence", 0.95) of the best direct validation *)
best_validation(sources) ==
    CHOOSE c \in direct_validations(sources) :
        \A d \in direct_validations(sources) : d <= c

(* _verify_with_structured_data for the best match score *)
verify_with_structured_data(best_score) ==
    IF best_score > 70
    THEN Verification("verified", Min(90, best_score + 10), "Matched source")
    ELSE IF best_score > 40
    THEN Verification("partial", best_score, "Partial match")
    ELSE Verification("not_found", 60,
                      "No strong matches found in search results")

(* _verify_citation with sources: the source_verifier call inside          *)
(* try/except (the text built from the sources is never blank)             *)
verify_citation(v) ==
    IF v.raised
    THEN Verification("error", 0, "Error during verification: verifier failed")
    ELSE Verification(v.status,
                      IF v.parsable THEN Clamp(v.reported) ELSE 50,
                      "explained")

(* a test that lets every partial match through *)
is_confident_partial(verdict) == verdict.confidence > 40

(* if verification_result["confidence"] > 0.7 *)
is_confident(verdict) == verdict.confidence > 70

(* the return statement _verify_citation_enhanced ends with *)
enhanced_path(sources, structured, best_score) ==
    IF sources = <<>> THEN "no_sources"
    ELSE IF direct_validations(sources) # {} THEN "direct"
    ELSE IF structured /\ is_confident(verify_with_structured_data(best_score))
    THEN "structured"
    ELSE "llm"

(* _verify_citation_enhanced *)
verify_citation_enhanced(sources, structured, best_score, v) ==
    CASE enhanced_path(sources, structured, best_score) = "no_sources" ->
            Verification("not_found", 80,
                         "No sources found to verify this citation.")
      [] enhanced_path(sources, structured, best_score) = "direct" ->
            Verification("verified", best_validation(sources),
                         "Direct validation")
      [] enhanced_path(sources, structured, best_score) = "structured" ->
            verify_with_structured_data(best_score)
      [] enhanced_path(sources, structured, best_score) = "llm" ->
            verify_citation(v)

(* one call of _fact_check_single_citation on a fact checker with or       *)
(* without a citation parser and a search client                           *)
InitSingle ==
    /\ ids = {}
    /\ InitEngine
    /\ NoBatch
    /\ NoPoll
    /\ NoMsg
    /\ NoParse
    /\ NoNer
    /\ NoSearch
    /\ NoScore
    /\ citation_parser \in BOOLEAN
    /\ search_client \in BOOLEAN
    /\ spc = "parse"
    /\ structured_citation = FALSE
    /\ sources_found = <<>>
    /\ verification_result = NoVerification
    /\ single_result = NoVerification
    /\ failures = {}
    /\ structured_verdict = NoVerification
    /\ llm_verdict = NoVerification

(* step 1: structured_citation = self.citation_parser.parse_citation(...)  *)
(* inside try/except: None without a parser or when the call raises       *)
single_parse(raised) ==
    /\ spc = "parse"
    /\ raised => citation_parser
    /\ structured_citation' = (citation_parser /\ ~raised)
    /\ failures' = IF raised THEN failures \cup {"parse"} ELSE failures
    /\ spc' = "search"
    /\ UNCHANGED <<citation_parser, search_client, sources_found,
                   verification_result, single_result, structured_verdict,
                   llm_verdict>>
    /\ UNCHANGED notSingle

(* step 2: with a structured citation, smart_citation_search or            *)
(* enhanced_citation_search of the search client, called outside any try:  *)
(* when it raises, the exception leaves _fact_check_single_citation.       *)
(* Without one, _generate_search_queries and _search_for_sources, which    *)
(* catch the exception of each search and go on.                           *)
single_search(sources, raised) ==
    /\ spc = "search"
    /\ raised => search_client
    /\ ~search_client => sources = <<>>
    /\ IF raised /\ structured_citation
       THEN spc' = "raised" /\ sources_found' = sources_found
       ELSE spc' = "verify" /\ sources_found' = sources
    /\ failures' = IF raised THEN failures \cup {"search"} ELSE failures
    /\ UNCHANGED <<citation_parser, search_client, structured_citation,
                   verification_result, single_result, structured_verdict,
                   llm_verdict>>
    /\ UNCHANGED notSingle

(* step 3: verification_result = self._verify_citation_enhanced(...),      *)
(* called outside any try: reading a malformed source record (a title,     *)
(* content or metadata that is None) raises out of the function; a failure *)
(* of the source_verifier call becomes a result with status error          *)
single_verify(best_score, v, malformed) ==
    /\ spc = "verify"
    /\ malformed => sources_found # <<>>
    /\ IF malformed
       THEN /\ spc' = "raised"
            /\ verification_result' = verification_result
            /\ failures' = failures \cup {"verify"}
            /\ UNCHANGED <<structured_verdict, llm_verdict>>
       ELSE /\ spc' = "queries"
            /\ structured_verdict' =
                   IF /\ structured_citation
                      /\ enhanced_path(sources_found, structured_citation,
                                       best_score) \in {"structured", "llm"}
                   THEN verify_with_structured_data(best_score)
                   ELSE NoVerification
            /\ llm_verdict' =
                   IF enhanced_path(sources_found, structured_citation,
                                    best_score) = "llm"
                   THEN verify_citation(v)
                   ELSE NoVerification
            /\ verification_result' =
                   verify_citation_enhanced(sources_found, structured_citation,
                                            best_score, v)
            /\ failures' =
                   IF verification_result'.status = "error"
                   THEN failures \cup {"verify"} ELSE failures
    /\ UNCHANGED <<citation_parser, search_client, structured_citation,
                   sources_found, single_result>>
    /\ UNCHANGED notSingle

(* the queries for logging (generate_search_queries of the parser on its   *)
(* own cleaned output, or _generate_search_queries with its fallback) and  *)
(* return FactCheckResult(...)                                             *)
single_return ==
    /\ spc = "queries"
    /\ single_result' = Verification(verification_result.status,
                                     verification_result.confidence,
                                     verification_result.explanation)
    /\ spc' = "returned"
    /\ UNCHANGED <<citation_parser, search_client, structured_citation,
                   sources_found, verification_result, failures,
                   structured_verdict, llm_verdict>>
    /\ UNCHANGED notSingle

NextSingle ==
    \/ \E raised \in BOOLEAN : single_parse(raised)
    \/ \E sources \in SourceLists, raised \in BOOLEAN :
          single_search(sources, raised)
    \/ \E best_score \in MatchScores, v \in VerifierOutcomes,
          malformed \in BOOLEAN : single_verify(best_score, v, malformed)
    \/ single_return

SpecSingle == InitSingle /\ [][NextSingle]_vars

(* C17: _fact_check_single_citation never raises, and every failure of     *)
(* one of its steps is returned as a result with status error.             *)
C17_SingleNeverRaises ==
    /\ spc # "raised"
    /\ (spc = "returned" /\ failures # {}) => single_result.status = "error"

(* C24: after the deterministic classification the generative verifier is  *)
(* invoked exactly when the classification's confidence is below 0.7,      *)
(* never at 0.7 or higher, and its verdict replaces the deterministic one. *)
C24_VerifierBelowThreshold ==
    (spc \in {"queries", "returned"} /\ structured_verdict # NoVerification) =>
        /\ llm_verdict # NoVerification <=> structured_verdict.confidence < 70
        /\ llm_verdict # NoVerification => verification_result = llm_verdict

(* C29: with sources found and none above 0.9, the only verdict of the     *)
(* structured-data scorer that reaches the caller is verified; its partial *)
(* and not_found verdicts have confidence <= 0.7 and are replaced by the   *)
(* verdict of the generative verifier or by its error result.              *)
C29_OnlyVerifiedSurvives ==
    (/\ spc = "returned"
     /\ sources_found # <<>>
     /\ direct_validations(sources_found) = {}
     /\ structured_verdict # NoVerification) =>
        IF structured_verdict.status = "verified"
        THEN /\ llm_verdict = NoVerification
             /\ single_result = structured_verdict
        ELSE /\ structured_verdict.status \in {"partial", "not_found"}
             /\ structured_verdict.confidence <= 70
             /\ llm_verdict # NoVerification
             /\ single_result = llm_verdict

(* a partial match of confidence 0.7 was replaced by the verifier's        *)
(* verdict with another status                                             *)
C29_Witness ==
    /\ spc = "returned"
    /\ sources_found # <<>>
    /\ direct_validations(sources_found) = {}
    /\ structured_verdict.status = "partial"
    /\ structured_verdict.confidence = 70
    /\ single_result = llm_verdict
    /\ single_result.status # "partial"

(* ---------------------------------------------------------------------- *)
(* Part 5 (specification SpecParse): CitationParser.parse_citation of      *)
(* src/models/citation_parser.py with _parse_with_llm, _parse_with_regex   *)
(* and _validate_and_clean.                                                *)
(* ---------------------------------------------------------------------- *)

(* the confidence the text-generation response reports for itself *)
ReportedConfidences == {-50, 50, 150}

(* float(parsed_data.get("confidence", 0.8)), 0.8 when that fails *)
DefaultLlmConfidence == 80

(* what result.structured_citation is: a JSON object; JSON of another      *)
(* kind (a list, a number); text with a {...} part that is a JSON object;  *)
(* text with a {...} part that is not JSON; text without braces; not a     *)
(* string                                                                  *)
ResponseShapes ==
    {"object", "not_object", "embedded", "embedded_bad", "no_braces",
     "not_text"}

(* _validate_and_clean: the confidence after the adjustment for data       *)
(* quality                                                                 *)
validate_and_clean(f) ==
    IF f.title /\ f.first_author /\ f.year
    THEN [f EXCEPT !.confidence = Min(100, f.confidence + 20)]
    ELSE IF ~f.title
    THEN [f EXCEPT !.confidence = Max(10, f.confidence - 30)]
    ELSE f

(* _parse_with_regex: the confidence from what the patterns found, capped  *)
(* at 0.8, then _validate_and_clean                                        *)
regex_confidence(t) ==
    30 + (IF t.title THEN 20 ELSE 0) + (IF t.first_author THEN 20 ELSE 0)
       + (IF t.year THEN 10 ELSE 0) + (IF t.identifier THEN 20 ELSE 0)

parse_with_regex(t) ==
    StructuredCitation(
        validate_and_clean([t EXCEPT !.confidence = Min(80, regex_confidence(t))]),
        "regex")

(* a parse_citation that lets the exception of _parse_with_llm through *)
on_llm_failure_propagate == "raised"

(* parse_citation: except Exception: return self._parse_with_regex(...) *)
on_llm_failure == "regex"

(* parse_citation(citation_text, use_llm) on any citation text *)
InitParse ==
    /\ ids = {}
    /\ InitEngine
    /\ NoBatch
    /\ NoPoll
    /\ NoMsg
    /\ NoSingle
    /\ NoNer
    /\ NoSearch
    /\ NoScore
    /\ use_llm \in BOOLEAN
    /\ citation_text \in {Fields(ti, au, ye, idn, 0, TRUE) :
                             ti \in BOOLEAN, au \in BOOLEAN, ye \in BOOLEAN,
                             idn \in BOOLEAN}
    /\ ppc = (IF use_llm THEN "llm_call" ELSE "regex")
    /\ parsed_data = NoFields
    /\ parsed = NoCitation
    /\ llm_failure = NoneVal

(* _parse_with_llm: result = self.citation_parser(citation_text=...) *)
parse_llm_call(raised) ==
    /\ ppc = "llm_call"
    /\ IF raised
       THEN ppc' = on_llm_failure /\ llm_failure' = "call"
       ELSE ppc' = "json" /\ llm_failure' = llm_failure
    /\ UNCHANGED <<use_llm, citation_text, parsed_data, parsed>>
    /\ UNCHANGED notParse

(* json.loads(result.structured_citation); on JSONDecodeError the {...}    *)
(* part, if any, is loaded; ValueError when there is none.  Something that *)
(* is not a JSON object fails at parsed_data.get.  The fields are those    *)
(* of the object; the confidence is float() of its "confidence", 0.8 when  *)
(* there is none or it does not convert                                    *)
parse_json(shape, f, conf_ok) ==
    /\ ppc = "json"
    /\ IF shape \in {"object", "embedded"}
       THEN /\ parsed_data' =
                   [f EXCEPT !.confidence =
                       IF conf_ok THEN f.confidence ELSE DefaultLlmConfidence]
            /\ ppc' = "clean"
            /\ llm_failure' = llm_failure
       ELSE /\ parsed_data' = parsed_data
            /\ ppc' = on_llm_failure
            /\ llm_failure' = shape
    /\ UNCHANGED <<use_llm, citation_text, parsed>>
    /\ UNCHANGED notParse

(* StructuredCitation(...) and self._validate_and_clean(...): a field of   *)
(* another type than the cleaning expects (a title that is a number, an    *)
(* authors entry that is null) raises                                      *)
parse_clean ==
    /\ ppc = "clean"
    /\ IF parsed_data.well_typed
       THEN /\ parsed' = StructuredCitation(validate_and_clean(parsed_data), "llm")
            /\ ppc' = "returned"
            /\ llm_failure' = llm_failure
       ELSE /\ parsed' = parsed
            /\ ppc' = on_llm_failure
            /\ llm_failure' = "clean"
    /\ UNCHANGED <<use_llm, citation_text, parsed_data>>
    /\ UNCHANGED notParse

(* return self._parse_with_regex(citation_text) *)
parse_regex ==
    /\ ppc = "regex"
    /\ parsed' = parse_with_regex(citation_text)
    /\ ppc' = "returned"
    /\ UNCHANGED <<use_llm, citation_text, parsed_data, llm_failure>>
    /\ UNCHANGED notParse

NextParse ==
    \/ \E raised \in BOOLEAN : parse_llm_call(raised)
    \/ \E shape \in ResponseShapes, conf_ok \in BOOLEAN,
          ti \in BOOLEAN, au \in BOOLEAN, ye \in BOOLEAN, ok \in BOOLEAN,
          c \in ReportedConfidences :
          parse_json(shape, Fields(ti, au, ye, FALSE, c, ok), conf_ok)
    \/ parse_clean
    \/ parse_regex

SpecParse == InitParse /\ [][NextParse]_vars

(* C18: parse_citation(text, use_llm=True) returns a StructuredCitation    *)
(* whatever the text-generation call does; when the call fails, its        *)
(* response holds no JSON object, or the cleaning of the fields fails, the *)
(* result comes from the regex path and no exception reaches the caller.   *)
C18_RegexFallback ==
    /\ ppc # "raised"
    /\ ppc = "returned" =>
          /\ parsed.extraction_method \in {"llm", "regex"}
          /\ llm_failure # NoneVal => parsed.extraction_method = "regex"
          /\ parsed.extraction_method = "regex" =>
                parsed = parse_with_regex(citation_text)

C18_Witness ==
    /\ ppc = "returned"
    /\ use_llm
    /\ llm_failure = "clean"
    /\ parsed.extraction_method = "regex"

(* C25: every StructuredCitation of the regex path has confidence at most  *)
(* 0.8 when parse_citation returns it, whichever of title, first author,   *)
(* year and identifier are present.                                        *)
C25_RegexConfidenceCap ==
    (ppc = "returned" /\ parsed.extraction_method = "regex") =>
        parsed.confidence <= 80

(* C20: every StructuredCitation returned by parse_citation and every      *)
(* FactCheckResult has its confidence within [0,1].                        *)
C20_ConfidenceInRange ==
    /\ ppc = "returned" => parsed.confidence \in 0..100
    /\ spc = "returned" => single_result.confidence \in 0..100

(* ---------------------------------------------------------------------- *)
(* Part 6 (specification SpecNer): AcademicNER.extract_citations of        *)
(* src/models/ner_extractor.py after its pattern matching:                 *)
(* _remove_overlaps and the sort by start.                                 *)
(* ---------------------------------------------------------------------- *)

(* Citation(start, end, confidence) of a pattern match: match.span() of a  *)
(* match of one of citation_patterns, none of which matches the empty      *)
(* string, so start < end; the confidence of _calculate_confidence in      *)
(* hundredths                                                              *)
Citation(st, en, c) == [start |-> st, end |-> en, confidence |-> c]

MatchConfidences == {90, 100}

(* the spans a match can have in a text of MaxPos characters *)
Spans == {sp \in (0..MaxPos) \X (0..MaxPos) : sp[1] < sp[2]}

Citations ==
    {Citation(sp[1], sp[2], c) : sp \in Spans, c \in MatchConfidences}

(* the lists of at most MaxMatches matches *)
Matches == UNION {[1..n -> Citations] : n \in 0..MaxMatches}

(* s with x inserted before position k *)
InsertAt(s, k, x) == SubSeq(s, 1, k - 1) \o <<x>> \o SubSeq(s, k, Len(s))

(* the place of x in a list sorted by descending confidence, behind the    *)
(* elements of the same confidence (sorted is stable)                      *)
PlaceByConfidence(s, x) ==
    IF \E k \in 1..Len(s) : s[k].confidence < x.confidence
    THEN CHOOSE k \in 1..Len(s) :
            /\ s[k].confidence < x.confidence
            /\ \A j \in 1..(k - 1) : s[j].confidence >= x.confidence
    ELSE Len(s) + 1

(* sorted(citations, key=lambda c: c.confidence, reverse=True) *)
RECURSIVE sorted_by_confidence(_)
sorted_by_confidence(s) ==
    IF s = <<>> THEN <<>>
    ELSE LET front == sorted_by_confidence(SubSeq(s, 1, Len(s) - 1))
             x == s[Len(s)]
         IN  InsertAt(front, PlaceByConfidence(front, x), x)

(* the place of x in a list sorted by ascending start, behind the elements *)
(* of the same start                                                       *)
PlaceByStart(s, x) ==
    IF \E k \in 1..Len(s) : s[k].start > x.start
    THEN CHOOSE k \in 1..Len(s) :
            /\ s[k].start > x.start
            /\ \A j \in 1..(k - 1) : s[j].start <= x.start
    ELSE Len(s) + 1

(* sorted(citations, key=lambda c: c.start) *)
RECURSIVE sorted_by_start(_)
sorted_by_start(s) ==
    IF s = <<>> THEN <<>>
    ELSE LET front == sorted_by_start(SubSeq(s, 1, Len(s) - 1))
             x == s[Len(s)]
         IN  InsertAt(front, PlaceByStart(front, x), x)

(* an overlap test that only sees a citation inside a selected one *)
overlaps_inside(citation, selected) ==
    citation.start >= selected.start /\ citation.end <= selected.end

(* citation.start < selected.end and citation.end > selected.start *)
overlaps(citation, selected) ==
    citation.start < selected.end /\ citation.end > selected.start

(* the loop of _remove_overlaps over sorted_citations from position k *)
RECURSIVE keep_non_overlapping(_, _, _)
keep_non_overlapping(sorted_citations, k, kept) ==
    IF k > Len(sorted_citations) THEN kept
    ELSE keep_non_overlapping(
             sorted_citations, k + 1,
             IF \E j \in 1..Len(kept) : overlaps(sorted_citations[k], kept[j])
             THEN kept
             ELSE Append(kept, sorted_citations[k]))

(* _remove_overlaps *)
remove_overlaps(cs) ==
    IF cs = <<>> THEN cs
    ELSE keep_non_overlapping(sorted_by_confidence(cs), 1, <<>>)

(* extract_citations has built the list of the pattern matches *)
InitNer ==
    /\ ids = {}
    /\ InitEngine
    /\ NoBatch
    /\ NoPoll
    /\ NoMsg
    /\ NoSingle
    /\ NoParse
    /\ NoSearch
    /\ NoScore
    /\ matches \in Matches
    /\ npc = "remove_overlaps"
    /\ filtered = <<>>
    /\ extracted = <<>>

(* citations = self._remove_overlaps(citations) *)
ner_remove_overlaps ==
    /\ npc = "remove_overlaps"
    /\ filtered' = remove_overlaps(matches)
    /\ npc' = "sort"
    /\ UNCHANGED <<matches, extracted>>
    /\ UNCHANGED notNer

(* return sorted(citations, key=lambda c: c.start) *)
ner_return ==
    /\ npc = "sort"
    /\ extracted' = sorted_by_start(filtered)
    /\ npc' = "returned"
    /\ UNCHANGED <<matches, filtered>>
    /\ UNCHANGED notNer

NextNer ==
    \/ ner_remove_overlaps
    \/ ner_return

SpecNer == InitNer /\ [][NextNer]_vars

(* C19: extract_citations returns spans sorted by start offset, no two of  *)
(* them overlapping: a.end <= b.start for every adjacent pair.             *)
C19_SortedNonOverlapping ==
    npc = "returned" =>
        /\ \A k \in 1..(Len(extracted) - 1) :
              /\ extracted[k].start <= extracted[k + 1].start
              /\ extracted[k].end <= extracted[k + 1].start
        /\ \A k \in 1..Len(extracted) :
              \E j \in 1..Len(matches) : extracted[k] = matches[j]

(* three matches, the second of which overlaps the first and is dropped,   *)
(* and the two kept are returned in the other order than they were kept    *)
C19_Witness ==
    /\ npc = "returned"
    /\ Len(matches) = 3
    /\ Len(extracted) = 2
    /\ extracted[1].confidence < extracted[2].confidence
    /\ \E k \in 1..3 : overlaps(matches[k], extracted[2])
                           /\ matches[k] # extracted[2]

(* ---------------------------------------------------------------------- *)
(* Part 7 (specification SpecSearch): the citation search of the two       *)
(* search clients, FirecrawlSearchClient.smart_citation_search of          *)
(* src/search/firecrawl_client.py and                                      *)
(* SearXNGSearchClient.smart_citation_search, which is                     *)
(* enhanced_citation_search, of src/search/searxng_client.py.              *)
(* A url is a number: 0 is the empty string, 1, 2 and 3 are the urls of    *)
(* the DOI, arXiv and PubMed records, the others are urls of web results.  *)
(* Urls are only compared with each other and with "", so a web result     *)
(* that brings a url not seen before brings the next unused number.        *)
(* Confidences are in hundredths.                                          *)
(* ---------------------------------------------------------------------- *)

Clients == {"firecrawl", "searxng"}

(* return unique_results[:5] *)
MaxEvidence == 5

(* self.search(query, num_results=3), self.academic_search(query, 3) *)
NumResults == 3

(* for query in search_queries[:3] / search_queries[:4] *)
QueryLimit(c) == IF c = "firecrawl" THEN 3 ELSE 4

SearchRecord(u, c) == [url |-> u, confidence |-> c]

(* the record _validate_doi / _validate_doi_with_searxng can return; the   *)
(* SearXNG one takes the url of the first search result                    *)
DoiRecords(c) ==
    IF c = "firecrawl"
    THEN {SearchRecord(1, 95), SearchRecord(1, 90)}
    ELSE {SearchRecord(u, 90) : u \in 0..2}

(* the record _validate_arxiv / _validate_arxiv_with_searxng returns *)
ArxivRecord(c) ==
    IF c = "firecrawl" THEN SearchRecord(2, 98) ELSE SearchRecord(2, 95)

(* the record _validate_pubmed / _validate_pubmed_with_searxng returns *)
PubmedRecord(c) ==
    IF c = "firecrawl" THEN SearchRecord(3, 96) ELSE SearchRecord(3, 93)

(* a list with the discovery number n of each record added to it *)
Numbered(s, from) ==
    [k \in 1..Len(s) |->
        [url |-> s[k].url, confidence |-> s[k].confidence, n |-> from + k]]

(* _try_direct_url_validation: the DOI, arXiv and PubMed records, in this  *)
(* order, each one only if the citation has the identifier and it resolves *)
try_direct_url_validation(c) ==
    {Numbered(d \o a \o p, 0) :
        d \in {<<>>} \cup {<<r>> : r \in DoiRecords(c)},
        a \in {<<>>, <<ArxivRecord(c)>>},
        p \in {<<>>, <<PubmedRecord(c)>>}}

(* the confidence of the records of self.search (Firecrawl: no confidence  *)
(* key, read as x.get("confidence", 0)) and of academic_search (SearXNG)   *)
web_confidence(c) == IF c = "firecrawl" THEN 0 ELSE 70

(* the urls in a list of records *)
UrlsOf(s) == {s[k].url : k \in 1..Len(s)}

(* the largest element of a non-empty set of numbers *)
Largest(S) == CHOOSE x \in S : \A y \in S : y <= x

(* the url a web result brings when it brings one not seen before *)
FreshUrl(S) == Largest(S \cup {3}) + 1

(* the url lists one query can return after the urls in known *)
QueryUrls(known, room) ==
    {b \in UNION {[1..n -> 0..MaxUrl] : n \in 0..Min(NumResults, room)} :
        \A k \in 1..Len(b) :
            LET before == known \cup {b[j] : j \in 1..(k - 1)}
            IN  b[k] = 0 \/ b[k] \in before \/ b[k] = FreshUrl(before)}

(* if not any(r.get("confidence", 0) > 0.9 for r in direct_results);      *)
(* enhanced_citation_search of SearXNG has no such test                    *)
wants_web_search(c, direct) ==
    \/ c = "searxng"
    \/ ~ \E k \in 1..Len(direct) : direct[k].confidence > 90

(* a url test that forgets the urls seen *)
is_new_url_any(url, seen_urls) == url # 0

(* if url and url not in seen_urls *)
is_new_url(url, seen_urls) == url # 0 /\ url \notin seen_urls

(* the loop over all_results that fills unique_results *)
RECURSIVE unique_from(_, _, _)
unique_from(rs, k, unique_results) ==
    IF k > Len(rs) THEN unique_results
    ELSE unique_from(
             rs, k + 1,
             IF is_new_url(rs[k].url, UrlsOf(unique_results))
             THEN Append(unique_results, rs[k])
             ELSE unique_results)

(* s[:MaxEvidence] *)
FirstFive(s) == SubSeq(s, 1, Min(MaxEvidence, Len(s)))

(* the end of the search: Firecrawl returns unique_results[:5]; SearXNG    *)
(* sorts unique_results by confidence, highest first (list.sort is stable, *)
(* as sorted is), and returns unique_results[:5]                           *)
search_result(c, rs) ==
    LET unique_results == unique_from(rs, 1, <<>>)
    IN  IF c = "firecrawl"
        THEN FirstFive(unique_results)
        ELSE FirstFive(sorted_by_confidence(unique_results))

InitSearch ==
    /\ ids = {}
    /\ InitEngine
    /\ NoBatch
    /\ NoPoll
    /\ NoMsg
    /\ NoSingle
    /\ NoParse
    /\ NoNer
    /\ NoScore
    /\ client \in Clients
    /\ direct_results = <<>>
    /\ all_results = <<>>
    /\ issued = 0
    /\ web_ran = FALSE
    /\ qpc = "direct"
    /\ evidence = <<>>

(* direct_results = self._try_direct_url_validation(...);                  *)
(* all_results.extend(direct_results); the test for the web search         *)
search_direct(direct) ==
    /\ qpc = "direct"
    /\ direct_results' = direct
    /\ all_results' = direct
    /\ IF wants_web_search(client, direct)
       THEN qpc' = "web" /\ web_ran' = TRUE
       ELSE qpc' = "unique" /\ web_ran' = FALSE
    /\ UNCHANGED <<client, issued, evidence>>
    /\ UNCHANGED notSearch

(* one turn of the loop over search_queries[:limit]: the query returns the *)
(* urls b (none when the search raises, which the loop swallows)           *)
search_query(b) ==
    /\ qpc = "web"
    /\ issued < QueryLimit(client)
    /\ issued' = issued + 1
    /\ all_results' =
          all_results \o
              Numbered([k \in 1..Len(b) |->
                            SearchRecord(b[k], web_confidence(client))],
                       Len(all_results))
    /\ UNCHANGED <<client, direct_results, web_ran, qpc, evidence>>
    /\ UNCHANGED notSearch

(* the loop over search_queries[:limit] ends: the last query is done *)
search_queries_done ==
    /\ qpc = "web"
    /\ qpc' = "unique"
    /\ UNCHANGED <<client, direct_results, all_results, issued, web_ran,
                   evidence>>
    /\ UNCHANGED notSearch

(* the duplicate removal and the return *)
search_return ==
    /\ qpc = "unique"
    /\ evidence' = search_result(client, all_results)
    /\ qpc' = "returned"
    /\ UNCHANGED <<client, direct_results, all_results, issued, web_ran>>
    /\ UNCHANGED notSearch

NextSearch ==
    \/ \E direct \in try_direct_url_validation(client) : search_direct(direct)
    \/ \E b \in QueryUrls(UrlsOf(all_results),
                          MaxWeb - (Len(all_results) - Len(direct_results))) :
          search_query(b)
    \/ search_queries_done
    \/ search_return

SpecSearch == InitSearch /\ [][NextSearch]_vars

(* the unique records of a search, in discovery order *)
UniqueRecords == unique_from(all_results, 1, <<>>)

(* C21: the evidence list has at most 5 records with pairwise distinct     *)
(* urls, each the first record discovered with its url, the direct         *)
(* resolution records being discovered before the web search records.      *)
C21_DistinctFirstDiscovered ==
    qpc = "returned" =>
        /\ Len(evidence) <= 5
        /\ \A x, y \in 1..Len(evidence) :
              x # y => evidence[x].url # evidence[y].url
        /\ \A x \in 1..Len(evidence) :
              /\ evidence[x].n \in 1..Len(all_results)
              /\ all_results[evidence[x].n] = evidence[x]
              /\ evidence[x].url # 0
              /\ \A k \in 1..Len(all_results) :
                    all_results[k].url = evidence[x].url => evidence[x].n <= k
        /\ SubSeq(all_results, 1, Len(direct_results)) = direct_results

(* six urls were discovered, one of them twice, in the direct resolution   *)
(* and again in the web search, and five records are returned              *)
C21_Witness ==
    /\ qpc = "returned"
    /\ Len(evidence) = 5
    /\ Len(UniqueRecords) = 6
    /\ \E x \in 1..Len(direct_results) :
          \E k \in (Len(direct_results) + 1)..Len(all_results) :
              all_results[k].url = direct_results[x].url /\ all_results[k].url # 0

(* C22: the evidence list is the five highest-confidence unique records,   *)
(* in descending confidence order, ties in discovery order; no unique      *)
(* record left out has a higher confidence than a record returned.         *)
C22_TopFiveByConfidence ==
    qpc = "returned" =>
        /\ \A x \in 1..(Len(evidence) - 1) :
              \/ evidence[x].confidence > evidence[x + 1].confidence
              \/ /\ evidence[x].confidence = evidence[x + 1].confidence
                 /\ evidence[x].n < evidence[x + 1].n
        /\ \A k \in 1..Len(UniqueRecords) :
              (\A x \in 1..Len(evidence) : evidence[x] # UniqueRecords[k]) =>
                  \A x \in 1..Len(evidence) :
                      UniqueRecords[k].confidence <= evidence[x].confidence
        /\ Len(evidence) = Min(5, Len(UniqueRecords))

(* C23: the web-search phase runs if and only if direct resolution gave no *)
(* record with confidence > 0.9; once it gave one, no query is issued.     *)
C23_WebSearchOnlyWithoutDirect ==
    qpc = "returned" =>
        LET high == \E k \in 1..Len(direct_results) :
                        direct_results[k].confidence > 90
        IN  /\ web_ran <=> ~high
            /\ high => issued = 0

(* ---------------------------------------------------------------------- *)
(* Part 8 (specification SpecRecreate): AsyncProcessor of                  *)
(* src/async_processor.py when create_task is called twice with the same   *)
(* task id: two task objects and two run threads under one id.             *)
(* ---------------------------------------------------------------------- *)

(* the task objects of two create_task calls *)
TwoObjs == 1..2

InitRecreate ==
    /\ ids = {"t1"}
    /\ InitEngineOn(TwoObjs)
    /\ NoBatch
    /\ NoPoll
    /\ NoMsg
    /\ NoSingle
    /\ NoParse
    /\ NoNer
    /\ NoSearch
    /\ NoScore

NextRecreate ==
    \/ \E id \in ids : register_callback(id)
    \/ \E id \in ids, t \in TimeoutArgs :
          create_task_within(id, t, Cardinality(TwoObjs))
    \/ \E o \in TwoObjs : RunThread(o)
    \/ \E o \in TwoObjs, v \in ReturnValues : worker_return(o, v)
    \/ \E o \in TwoObjs, e \in {ExcBoom, ExcInnerTimeout} : worker_raise(o, e)

SpecRecreate == InitRecreate /\ [][NextRecreate]_vars

(* the run of object o has stored a result or an error in its task *)
HasOutcome(o) == task[o].result # NoneVal \/ task[o].error # NoneVal

(* C26: when create_task is called again with a registered id, the entry   *)
(* is replaced by a new pending task and the earlier run goes on with its  *)
(* own task object: get_task(id) never shows the earlier run's result or   *)
(* error, and the completion callback registered under the id is invoked   *)
(* at most once for the id.                                                *)
C26_RecreateDetaches ==
    \A id \in ids :
        (nobjs = 2 /\ task[1].id = id /\ task[2].id = id) =>
            /\ get_task(id) = 2
            /\ HasOutcome(get_task(id)) =>
                  pc[2] \notin {"idle", "start", "call", "join", "is_alive"}
            /\ cbCount[1] + cbCount[2] <= 1

(* ---------------------------------------------------------------------- *)
(* Part 9 (specification SpecScore): the body of the match loop of         *)
(* AcademicNER.extract_citations for one pattern match:                    *)
(* _calculate_confidence and the discard of low-confidence matches.        *)
(* Confidences are in hundredths.                                          *)
(* ---------------------------------------------------------------------- *)

(* enumerate(self.compiled_patterns): the seven citation_patterns *)
PatternIndexes == 0..6

(* the keywords of self.academic_keywords, each adding 0.1 when it is in   *)
(* the context window                                                      *)
KeywordCount == 20

(* patterns 0, 1 and 2 contain \d{4}, so their text always has a year *)
YearChoices(p) == IF p \in 0..2 THEN {TRUE} ELSE BOOLEAN

(* base_confidence = {...}.get(pattern_index, 0.5) *)
base_confidence(p) ==
    CASE p = 0 -> 90
      [] p = 1 -> 95
      [] p = 2 -> 85
      [] p = 3 -> 99
      [] p = 4 -> 99
      [] p = 5 -> 80
      [] p = 6 -> 90
      [] OTHER -> 50

(* keyword_boost: 0.1 for every keyword found *)
keyword_boost(hits) == 10 * hits

(* a format check that takes 0.1 away for every quality the text has *)
format_boost_penalty(year, name, long) ==
    0 - ((IF year THEN 10 ELSE 0) + (IF name THEN 10 ELSE 0)
           + (IF long THEN 10 ELSE 0))

(* format_boost: 0.1 for a year, 0.1 for a proper name, 0.1 for more than  *)
(* 20 characters                                                           *)
format_boost(year, name, long) ==
    (IF year THEN 10 ELSE 0) + (IF name THEN 10 ELSE 0)
        + (IF long THEN 10 ELSE 0)

(* min(1.0, base_confidence + keyword_boost + format_boost) *)
calculate_confidence(p, hits, year, name, long) ==
    Min(100, base_confidence(p) + keyword_boost(hits)
                + format_boost(year, name, long))

(* a pattern has matched: for i, pattern in enumerate(...): for match in   *)
(* pattern.finditer(text)                                                  *)
InitScore ==
    /\ ids = {}
    /\ InitEngine
    /\ NoBatch
    /\ NoPoll
    /\ NoMsg
    /\ NoSingle
    /\ NoParse
    /\ NoNer
    /\ NoSearch
    /\ pattern_index \in PatternIndexes
    /\ keyword_hits \in 0..KeywordCount
    /\ has_year \in YearChoices(pattern_index)
    /\ has_name \in BOOLEAN
    /\ is_long \in BOOLEAN
    /\ cpc = "calculate"
    /\ match_confidence = 0
    /\ appended = FALSE

(* confidence = self._calculate_confidence(citation_text, text, i) *)
score_calculate ==
    /\ cpc = "calculate"
    /\ match_confidence' =
          calculate_confidence(pattern_index, keyword_hits, has_year, has_name,
                               is_long)
    /\ cpc' = "filter"
    /\ UNCHANGED <<pattern_index, keyword_hits, has_year, has_name, is_long,
                   appended>>
    /\ UNCHANGED notScore

(* if confidence < 0.3: continue; otherwise the Citation is built and      *)
(* appended to citations                                                   *)
score_filter ==
    /\ cpc = "filter"
    /\ appended' = ~(match_confidence < 30)
    /\ cpc' = "done"
    /\ UNCHANGED <<pattern_index, keyword_hits, has_year, has_name, is_long,
                   match_confidence>>
    /\ UNCHANGED notScore

NextScore ==
    \/ score_calculate
    \/ score_filter

SpecScore == InitScore /\ [][NextScore]_vars

====
